---------------------------- MODULE Spec2Model ----------------------------
(***************************************************************************)
(* A model of the simplified proof-of-work blockchain:                     *)
(*   src/src/block.rs  Block, Block::calculate_hash, Block::mine           *)
(*   src/src/main.rs   DIFFICULTY_TARGET, get_random_string, data_feed,    *)
(*                     main                                                *)
(*                                                                         *)
(* Scaling.  A digest is HashLen bytes (32 in the source), a byte is a     *)
(* number below ByteMod (256 in the source), the nonce is NonceBits wide   *)
(* (u128 in the source) and a string is named by a number: 0 is the empty  *)
(* string, 1..NumData are the strings get_random_string can return.        *)
(* Sequences are 1-based: hash[0] of the source is hash[1] here.           *)
(***************************************************************************)
EXTENDS Integers, Sequences, FiniteSets

\* ------------------------------------------------------------------ bounds
HashLen == 2
ByteMod == 4
NonceBits == 2
NumData == 2
MaxIndex == 1
MaxCalls == 2
Capacity == 2
MaxPayloads == 3

\* ------------------------------------------------------- program constants
DIFFICULTY_TARGET == 2

VARIABLES
    blk,            \* the block a caller hands to calculate_hash / mine (&self)
    entry,          \* that block as it was when mine was last called
    iter,           \* the RangeFrom<u128> of `for nonce in 0..`: its next value
    wrapped,        \* whether that range has overflowed and wrapped to 0
    minePc,         \* "idle" | "loop" | "returned" | "panicked"
    calls,          \* how many times mine has been called on blk
    overflowChecks, \* the build: TRUE with overflow checks (debug), FALSE without
    calcBlk,        \* the block calculate_hash last ran on
    calcOut,        \* what that call returned
    pcMain,         \* main: "start" | "created" | "filled" | "printed"
    block,          \* main's local `block`
    stdout,         \* the blocks main has printed
    pcFeed,         \* data_feed: "gen" | "send" | "sleep"
    data,           \* data_feed's local `data`
    waited,         \* whether the send in progress has suspended on a full channel
    queue,          \* the channel's buffer
    rxClosed,       \* whether the receiving half is closed
    received,       \* what the receiving half has taken out
    genLog,         \* every string data_feed has generated, in order
    sendErrs        \* the strings whose send returned Err (one stderr line each)

mineVars == <<blk, entry, iter, wrapped, minePc, calls, overflowChecks, calcBlk, calcOut>>
mainVars == <<pcMain, block, stdout>>
feedVars == <<pcFeed, data, waited, queue, rxClosed, received, genLog, sendErrs>>
vars == <<mineVars, mainVars, feedVars>>

\* ------------------------------------------------------------------- Block
ZeroHash == [i \in 1 .. HashLen |-> 0]

OnesHash == [i \in 1 .. HashLen |-> 1]

SampleHashes == {ZeroHash, OnesHash}

NonceMod == 2 ^ NonceBits

NonceMax == NonceMod - 1

Strings == 1 .. NumData

NoBlock == [none |-> TRUE]

\* A default block whose previous_hash is not zeroed.
DefaultBlockStalePrev ==
    [index |-> 0, data |-> 0, previous_hash |-> OnesHash, hash |-> ZeroHash, nonce |-> 0]

\* #[derive(Default)]: every field zero, the string empty.
DefaultBlock ==
    [index |-> 0, data |-> 0, previous_hash |-> ZeroHash, hash |-> ZeroHash, nonce |-> 0]

\* A serialization that does not skip the hash field.
SerializeWithHash(b) ==
    <<b.index, b.data>> \o b.previous_hash \o b.hash \o <<b.nonce>>

\* Serialize, with #[serde(skip_serializing)] on hash: the fields in declaration
\* order, hash left out.
Serialize(b) ==
    <<b.index, b.data>> \o b.previous_hash \o <<b.nonce>>

\* One absorption step of the digest function standing for blake3.
Blake3Mix(h, x) == (3 * (h + x + 1) * (h + x + 1) + x) % 251

\* The digest state after absorbing the first k bytes.
RECURSIVE Blake3Fold(_, _)
Blake3Fold(bytes, k) ==
    IF k = 0 THEN 2 ELSE Blake3Mix(Blake3Fold(bytes, k - 1), bytes[k])

Blake3State(bytes) == Blake3Fold(bytes, Len(bytes))

\* blake3::hash(..).as_bytes(): a digest of HashLen bytes.
Blake3(bytes) ==
    [i \in 1 .. HashLen |-> (Blake3State(bytes) \div (ByteMod ^ (i - 1))) % ByteMod]

\* The commitment mine stores: the digest of the serialized block.
HashCommitment(b) == Blake3(Serialize(b))

\* Block::calculate_hash: the Debug text of the digest's first byte, Some(b).
calculate_hash(b) == <<"Some", Blake3(Serialize(b))[1]>>

\* The difficulty target of the module documentation: DIFFICULTY_TARGET leading
\* zero bytes.
MeetsTarget(h) == \A i \in 1 .. DIFFICULTY_TARGET : h[i] = 0

\* The test of the search, `self.hash[0] == 0`.
MineAccepts(h) == h[1] = 0

\* ------------------------------------------------------- calculate_hash, mine
CalculateHash ==
    /\ minePc \in {"idle", "returned"}
    /\ calcBlk' = blk
    /\ calcOut' = calculate_hash(blk)
    /\ UNCHANGED <<blk, entry, iter, wrapped, minePc, calls, overflowChecks>>
    /\ UNCHANGED <<mainVars, feedVars>>

\* A call whose range starts at the nonce the block already holds.
MineCallResume ==
    /\ minePc \in {"idle", "returned"}
    /\ calls < MaxCalls
    /\ calls' = calls + 1
    /\ entry' = blk
    /\ iter' = blk.nonce
    /\ wrapped' = FALSE
    /\ minePc' = "loop"
    /\ UNCHANGED <<blk, overflowChecks, calcBlk, calcOut>>
    /\ UNCHANGED <<mainVars, feedVars>>

\* The call: `for nonce in 0..` builds the range, starting at 0.
MineCall ==
    /\ minePc \in {"idle", "returned"}
    /\ calls < MaxCalls
    /\ calls' = calls + 1
    /\ entry' = blk
    /\ iter' = 0
    /\ wrapped' = FALSE
    /\ minePc' = "loop"
    /\ UNCHANGED <<blk, overflowChecks, calcBlk, calcOut>>
    /\ UNCHANGED <<mainVars, feedVars>>

\* A loop body that hashes with the nonce but does not store it in the block.
MineBodyDropNonce(b, n) ==
    [b EXCEPT !.hash = HashCommitment([b EXCEPT !.nonce = n])]

\* A loop body that also advances the block's index.
MineBodyBumpIndex(b, n) ==
    [b EXCEPT !.index = b.index + 1, !.nonce = n,
              !.hash = HashCommitment([b EXCEPT !.nonce = n])]

\* The block after one pass of the loop body with the nonce the range yielded:
\* self.nonce = nonce, then self.hash = the digest of the serialized block.
MineBody(b, n) ==
    [b EXCEPT !.nonce = n, !.hash = HashCommitment([b EXCEPT !.nonce = n])]

\* A range that advances in steps of 2.
StepForwardByTwo(n) == (n + 2) % NonceMod

\* What RangeFrom::next leaves as the next value after yielding n.
StepForward(n) == (n + 1) % NonceMod

\* Block::mine as a function of the block it is called on: the block it returns
\* with, trying the nonces from n upwards, or NoBlock when none up to the last
\* is accepted.
RECURSIVE MineFrom(_, _)
MineFrom(b, n) ==
    IF MineAccepts(MineBody(b, n).hash) THEN MineBody(b, n)
    ELSE IF n = NonceMax THEN NoBlock
    ELSE MineFrom(MineBody(b, n), n + 1)

mine(b) == MineFrom(b, 0)

\* One iteration: RangeFrom::next, then the body.  At the last value
\* Step::forward overflows: with overflow checks it panics before the value is
\* yielded, without them it wraps to 0.
MineStep ==
    /\ minePc = "loop"
    /\ \/ /\ iter = NonceMax
          /\ overflowChecks
          /\ minePc' = "panicked"
          /\ UNCHANGED <<blk, iter, wrapped>>
       \/ /\ ~(iter = NonceMax /\ overflowChecks)
          /\ blk' = MineBody(blk, iter)
          /\ iter' = StepForward(iter)
          /\ wrapped' = (wrapped \/ iter = NonceMax)
          /\ minePc' = IF MineAccepts(blk'.hash) THEN "returned" ELSE "loop"
    /\ UNCHANGED <<entry, calls, overflowChecks, calcBlk, calcOut>>
    /\ UNCHANGED <<mainVars, feedVars>>

\* --------------------------------------------------------------------- main
\* let mut block = Block::default();
MainDefault ==
    /\ pcMain = "start"
    /\ block' = DefaultBlock
    /\ pcMain' = "created"
    /\ UNCHANGED stdout
    /\ UNCHANGED <<mineVars, feedVars>>

\* block.data = get_random_string();
MainSetData ==
    /\ pcMain = "created"
    /\ \E s \in Strings : block' = [block EXCEPT !.data = s]
    /\ pcMain' = "filled"
    /\ UNCHANGED stdout
    /\ UNCHANGED <<mineVars, feedVars>>

\* println!("block: {block:?}");
MainPrint ==
    /\ pcMain = "filled"
    /\ stdout' = Append(stdout, block)
    /\ pcMain' = "printed"
    /\ UNCHANGED block
    /\ UNCHANGED <<mineVars, feedVars>>

\* The blocks the program holds: main's one local block, once created.
Chain == IF block = NoBlock THEN <<>> ELSE <<block>>

\* ---------------------------------------------------------------- data_feed
\* let data = get_random_string();
FeedGenerate ==
    /\ pcFeed = "gen"
    /\ Len(genLog) < MaxPayloads
    /\ \E s \in Strings :
          /\ data' = <<s>>
          /\ genLog' = Append(genLog, s)
    /\ waited' = FALSE
    /\ pcFeed' = "send"
    /\ UNCHANGED <<queue, rxClosed, received, sendErrs>>
    /\ UNCHANGED <<mineVars, mainVars>>

\* A send that gives up on a full channel instead of waiting for capacity.
FeedSendDropping ==
    /\ pcFeed = "send"
    /\ \/ /\ ~rxClosed
          /\ Len(queue) < Capacity
          /\ queue' = Append(queue, data[1])
          /\ UNCHANGED sendErrs
       \/ /\ ~rxClosed
          /\ Len(queue) >= Capacity
          /\ UNCHANGED <<queue, sendErrs>>
       \/ /\ rxClosed
          /\ sendErrs' = Append(sendErrs, data[1])
          /\ UNCHANGED queue
    /\ data' = <<>>
    /\ pcFeed' = "sleep"
    /\ UNCHANGED <<waited, rxClosed, received, genLog>>
    /\ UNCHANGED <<mineVars, mainVars>>

\* if let Err(err) = tx.send(data).await { eprintln!(..) }
\* Sender::send on an open channel enqueues when there is capacity and suspends
\* when there is none, to be resumed when capacity appears or the receiving
\* half closes; on a closed channel it returns Err, and the Err branch only
\* prints.
FeedSend ==
    /\ pcFeed = "send"
    /\ \/ /\ ~rxClosed
          /\ Len(queue) < Capacity
          /\ queue' = Append(queue, data[1])
          /\ data' = <<>>
          /\ pcFeed' = "sleep"
          /\ UNCHANGED <<waited, sendErrs>>
       \/ /\ ~rxClosed
          /\ Len(queue) >= Capacity
          /\ ~waited
          /\ waited' = TRUE
          /\ UNCHANGED <<pcFeed, data, queue, sendErrs>>
       \/ /\ rxClosed
          /\ sendErrs' = Append(sendErrs, data[1])
          /\ data' = <<>>
          /\ pcFeed' = "sleep"
          /\ UNCHANGED <<waited, queue>>
    /\ UNCHANGED <<rxClosed, received, genLog>>
    /\ UNCHANGED <<mineVars, mainVars>>

\* tokio::time::sleep(Duration::from_millis(500)).await; then the loop repeats.
FeedSleep ==
    /\ pcFeed = "sleep"
    /\ pcFeed' = "gen"
    /\ UNCHANGED <<data, waited, queue, rxClosed, received, genLog, sendErrs>>
    /\ UNCHANGED <<mineVars, mainVars>>

\* The holder of the receiving half takes the oldest buffered string.
Recv ==
    /\ queue # <<>>
    /\ received' = Append(received, Head(queue))
    /\ queue' = Tail(queue)
    /\ UNCHANGED <<pcFeed, data, waited, rxClosed, genLog, sendErrs>>
    /\ UNCHANGED <<mineVars, mainVars>>

\* The holder of the receiving half closes it; buffered strings stay receivable.
CloseRx ==
    /\ ~rxClosed
    /\ rxClosed' = TRUE
    /\ UNCHANGED <<pcFeed, data, waited, queue, received, genLog, sendErrs>>
    /\ UNCHANGED <<mineVars, mainVars>>

\* ------------------------------------------------------------ specifications
MineIdle ==
    /\ blk = DefaultBlock
    /\ entry = NoBlock
    /\ iter = 0
    /\ wrapped = FALSE
    /\ minePc = "idle"
    /\ calls = 0
    /\ overflowChecks = TRUE
    /\ calcBlk = NoBlock
    /\ calcOut = <<>>

MainStart ==
    /\ pcMain = "start"
    /\ block = NoBlock
    /\ stdout = <<>>

FeedStart ==
    /\ pcFeed = "gen"
    /\ data = <<>>
    /\ waited = FALSE
    /\ queue = <<>>
    /\ rxClosed = FALSE
    /\ received = <<>>
    /\ genLog = <<>>
    /\ sendErrs = <<>>

\* The program: main, and data_feed on a channel of Capacity strings.
Init == MineIdle /\ MainStart /\ FeedStart

Next ==
    \/ MainDefault
    \/ MainSetData
    \/ MainPrint
    \/ FeedGenerate
    \/ FeedSend
    \/ FeedSleep
    \/ Recv
    \/ CloseRx

Spec == Init /\ [][Next]_vars

\* Block::calculate_hash and Block::mine on any block, under either build.
MineInit ==
    /\ blk \in [index : 0 .. MaxIndex, data : 0 .. NumData,
                previous_hash : SampleHashes, hash : SampleHashes,
                nonce : {0, NonceMax}]
    /\ entry = NoBlock
    /\ iter = 0
    /\ wrapped = FALSE
    /\ minePc = "idle"
    /\ calls = 0
    /\ overflowChecks \in BOOLEAN
    /\ calcBlk = NoBlock
    /\ calcOut = <<>>
    /\ MainStart
    /\ FeedStart

MineNext ==
    \/ CalculateHash
    \/ MineCall
    \/ MineStep

MineSpec == MineInit /\ [][MineNext]_vars

\* mine is a sequential loop: once called, its next iteration is always run.
MineFairSpec == MineSpec /\ WF_vars(MineStep)

\* ------------------------------------------------------------------- claims
\* The strings whose send returned Ok, in order.
Sent == received \o queue

SameCommittedFields(a, b) ==
    /\ a.index = b.index
    /\ a.data = b.data
    /\ a.previous_hash = b.previous_hash
    /\ a.nonce = b.nonce

(* C1: whenever mine has returned, the block's stored hash has a zero first  *)
(* byte (the test of the search) and equals the commitment recomputed over   *)
(* its index, data, previous_hash and stored nonce, the hash field excluded. *)
C1_MinedHashIsCommitment ==
    minePc = "returned" =>
        /\ blk.hash[1] = 0
        /\ blk.hash = Blake3(<<blk.index, blk.data>> \o blk.previous_hash \o <<blk.nonce>>)

C1_Witness ==
    /\ minePc = "returned"
    /\ blk.nonce > 0
    /\ blk.hash # entry.hash
    /\ blk.nonce # entry.nonce

(* C2: whenever mine has returned, the block's hash has DIFFICULTY_TARGET    *)
(* leading zero bytes.                                                       *)
C2_MeetsDifficultyTarget ==
    minePc = "returned" => MeetsTarget(blk.hash)

(* C3: the commitment and calculate_hash depend on index, data,              *)
(* previous_hash and nonce only: giving the block any other hash field       *)
(* leaves both unchanged, and calculate_hash run again on a block that       *)
(* agrees with an earlier one on the four fields returns what it returned    *)
(* then.                                                                     *)
C3_CommitmentIgnoresHashField ==
    /\ \A h \in SampleHashes \cup {blk.hash} :
          /\ HashCommitment([blk EXCEPT !.hash = h]) = HashCommitment(blk)
          /\ calculate_hash([blk EXCEPT !.hash = h]) = calculate_hash(blk)
    /\ (calcBlk # NoBlock /\ SameCommittedFields(calcBlk, blk)) =>
          calculate_hash(blk) = calcOut

C3_Witness ==
    /\ calcBlk # NoBlock
    /\ SameCommittedFields(calcBlk, blk)
    /\ calcBlk.hash # blk.hash
    /\ minePc = "returned"

C5_GenesisMinedBeforeShown ==
    \A i \in 1 .. Len(stdout) :
        /\ stdout[i].hash = HashCommitment(stdout[i])
        /\ MineAccepts(stdout[i].hash)

(* C6: once main is done and the channel is drained, the chain has one block *)
(* more than the strings sent, the blocks after the first carry the strings  *)
(* in the order sent, and each index is one more than the one before.        *)
C6_PipelineOrdering ==
    (pcMain = "printed" /\ queue = <<>>) =>
        /\ Len(Chain) = Len(Sent) + 1
        /\ \A i \in 1 .. Len(Sent) :
              (i + 1 <= Len(Chain)) =>
                  /\ Chain[i + 1].data = Sent[i]
                  /\ Chain[i + 1].index = Chain[i].index + 1

(* C7: after a send has failed on the closed channel, the producer makes no  *)
(* further send attempt.                                                     *)
C7_ProducerStopsOnClose ==
    /\ Len(sendErrs) <= 1
    /\ sendErrs # <<>> => pcFeed # "send"

(* C8: the channel never holds more than Capacity strings, and while it is   *)
(* open every generated string is, in order, received, buffered, or the one  *)
(* string of the send in progress: a send on a full channel keeps its string *)
(* until it is enqueued, and nothing is generated meanwhile.                 *)
C8_BackpressureNoDrop ==
    /\ Len(queue) <= Capacity
    /\ Len(data) <= 1
    /\ ~rxClosed => genLog = received \o queue \o data
    /\ (pcFeed = "send") = (data # <<>>)

C8_Witness ==
    /\ ~rxClosed
    /\ waited
    /\ pcFeed = "sleep"
    /\ Len(queue) = Capacity
    /\ received # <<>>
    /\ genLog = received \o queue

(* C9: the nonce range never wraps: the search is never still running after  *)
(* every nonce of the nonce space has been tried.                            *)
C9_ExhaustionIsFatal ==
    ~(wrapped /\ minePc = "loop")

\* The pipeline's state as the channel shows it.  data_feed is running from its
\* entry; the pipeline drains once the channel is closed with strings still
\* buffered, and has stopped once it is closed and empty.
PipelineState ==
    IF ~rxClosed THEN "Running"
    ELSE IF queue # <<>> THEN "Draining"
    ELSE "Stopped"

\* The payloads of the blocks the program holds after the first one.
ChainPayloads == [i \in 1 .. (Len(Chain) - 1) |-> Chain[i + 1].data]

(* C12: the pipeline only moves Running -> Draining, Running -> Stopped and   *)
(* Draining -> Stopped, and Stopped is terminal: in a step taken from         *)
(* Stopped the pipeline stays Stopped, the producer generates no string and   *)
(* nothing enters the channel.                                                *)
C12_PipelineStateMachine ==
    [][/\ <<PipelineState, PipelineState'>> \in
              {<<"Running", "Running">>, <<"Running", "Draining">>,
               <<"Running", "Stopped">>, <<"Draining", "Draining">>,
               <<"Draining", "Stopped">>, <<"Stopped", "Stopped">>}
       /\ PipelineState = "Stopped" =>
              /\ genLog' = genLog
              /\ queue' = queue]_vars

(* C13: once the channel has been closed and every buffered string has been   *)
(* taken out, each string taken out is the payload of a block held by the     *)
(* program, in the order taken.                                               *)
C13_ShutdownDrains ==
    (rxClosed /\ queue = <<>> /\ pcMain = "printed") => ChainPayloads = received

\* The commitment of the block mine was called on, with nonce n.
CandidateHash(n) == HashCommitment([entry EXCEPT !.nonce = n])

\* A block with the index, data and previous_hash of b, never mined.
Fresh(b) == [b EXCEPT !.nonce = 0, !.hash = ZeroHash]

(* C14: mine searches the nonces 0, 1, 2, ... in order: while it runs, every  *)
(* nonce below the next one has been rejected and the block holds the last    *)
(* nonce tried; when it returns, the stored nonce is accepted and every       *)
(* smaller nonce is rejected.                                                 *)
C14_SmallestNonce ==
    /\ (minePc = "loop" /\ ~wrapped) =>
          /\ \A n \in 0 .. (iter - 1) : ~MineAccepts(CandidateHash(n))
          /\ iter > 0 => blk.nonce = iter - 1
    /\ minePc = "returned" =>
          /\ MineAccepts(CandidateHash(blk.nonce))
          /\ \A n \in 0 .. (blk.nonce - 1) : ~MineAccepts(CandidateHash(n))

C14_Witness ==
    /\ minePc = "returned"
    /\ blk.nonce >= 1
    /\ \E n \in (blk.nonce + 1) .. NonceMax : MineAccepts(CandidateHash(n))

\* Whether some nonce of the nonce space is accepted for the block mine was
\* called on.
Solvable == \E n \in 0 .. NonceMax : MineAccepts(CandidateHash(n))

\* The call of mine has ended: it has returned, or, in the build with overflow
\* checks and with no nonce below the last one accepted, the range's overflow
\* has panicked.
MineEnded ==
    \/ minePc = "returned"
    \/ /\ minePc = "panicked"
       /\ overflowChecks
       /\ \A n \in 0 .. (NonceMax - 1) : ~MineAccepts(CandidateHash(n))

C16_MineFrame ==
    entry # NoBlock =>
        /\ blk.index = entry.index
        /\ blk.data = entry.data
        /\ blk.previous_hash = entry.previous_hash

C16_Witness ==
    /\ minePc = "loop"
    /\ iter >= 2
    /\ blk.nonce # entry.nonce
    /\ blk.hash # entry.hash
    /\ blk.index > 0
    /\ blk.data > 0

(* C17: whatever nonce and hash the block held when mine was called, a        *)
(* block mine has returned on equals the block mine returns on a fresh block  *)
(* with the same index, data and previous_hash; mining a mined block again    *)
(* leaves it as it is.                                                        *)
C17_MineIgnoresPriorNonceAndHash ==
    minePc = "returned" =>
        /\ blk = mine(Fresh(entry))
        /\ \A h \in SampleHashes, n \in 0 .. NonceMax :
              mine([entry EXCEPT !.nonce = n, !.hash = h]) = blk

C17_Witness ==
    /\ minePc = "returned"
    /\ calls = 2
    /\ entry = blk
    /\ blk.nonce > 0

=============================================================================
